---- MODULE Spec2Model ----
(***************************************************************************)
(* Model of the MPI master/worker protocol of bin/arcsimpi.py: rank 0      *)
(* (master) drives the scenes through ARCSIPART1..ARCSIPART4, ranks        *)
(* 1..mpiSize-1 (workers) run the stage functions.                         *)
(*                                                                         *)
(* Messages: mpiComm.send is modelled as a buffered (eager) send into a    *)
(* FIFO channel per ordered pair of ranks; mpiComm.recv(source, tag) takes *)
(* the first message of that source carrying that tag.  mpiComm.Barrier()  *)
(* releases only when all mpiSize ranks wait in it.                        *)
(*                                                                         *)
(* AOT values are integers in units of 0.001; the scene values are         *)
(* multiples of 60 so that aotSum / aotN is exact for up to 6 records.     *)
(***************************************************************************)
EXTENDS Integers, Sequences, FiniteSets, TLC

\* ---------------------------------------------------------------- bounds
MaxWorkers == 2
MaxJobs == 2
MaxLineLen == 3
MaxLat == 2

\* ------------------------------------------------------------- constants
\* mpiTags = ARCSIEnum("READY", "DONE", "EXIT", "START")
READY == "READY"
DONE == "DONE"
EXIT == "EXIT"
START == "START"

\* arcsiStages = ARCSIEnum("ARCSIPART1", ..., "ARCSIPART4"): the enum numbers
\* its names from 0 (the worker prints int(tskData[0]) + 1 as the part number)
ARCSIPART1 == 0
ARCSIPART2 == 1
ARCSIPART3 == 2
ARCSIPART4 == 3
arcsiStages == {ARCSIPART1, ARCSIPART2, ARCSIPART3, ARCSIPART4}

\* Python None, and a present value v, for an optional number
None == << >>
Some(v) == << v >>

\* avgAOT = 0.05 when no scene has an AOT value (units of 0.001)
DefaultAOT == 50

\* the AOT value stage 1 derives from a scene: absent, 0.06 or 0.18
SceneAOTs == {None, Some(60), Some(180)}

VARIABLES
    mpiSize,          \* number of ranks (master + workers)
    mpc,              \* master: position in the script
    part,             \* master: the stage whose round is running
    item,             \* master: loop variable of the dispatch/gather loops
    inputHeadersLst,  \* master: the scenes read from args.inputheaders
    paramsLst,        \* master: the job list
    paramsLstTmp,     \* master: results gathered in the running round
    calcAOT, useAOTImage, calc6SSREF, exportMetaData,
    avgAOT,           \* master: result of the aggregation (None before it)
    e,                \* master: the exception caught by `except ... as e`
    toWorker,         \* toWorker[w]: messages rank 0 -> rank w, in order
    toMaster,         \* toMaster[w]: messages rank w -> rank 0, in order
    wpc,              \* wpc[w]: worker w's position in its loop
    tskData,          \* tskData[w]: the [stage, paramsObj] worker w received
    sentStart,        \* log: <<stage, rank, paramsObj>> of every START sent
    gotReady,         \* log: <<stage, rank>> of every READY the master received
    gotDone,          \* log: <<stage, rank>> of every DONE the master received
    mBarriers,        \* log: stages after which the master entered Barrier
    wBarriers,        \* log: wBarriers[w] = number of Barrier calls of worker w
    seen,             \* log: seen[w] = stage ids of the STARTs worker w received
    exitSent          \* log: exitSent[w] = number of EXITs sent to worker w

\* a caller of the ARCSIUtils functions of arcsilib/arcsiutils.py: the
\* arguments it passes and the value it got back
VARIABLES
    inLine,           \* stringTokenizer: the line, a sequence of characters
    inDelimiter,      \* stringTokenizer: the delimiter character
    outTokens,        \* stringTokenizer: the returned list (<< >> before the call)
    inLat,            \* isSummerOrWinter: lat
    inLong,           \* isSummerOrWinter: long
    inMonth,          \* isSummerOrWinter: date.month
    outSummerWinter   \* isSummerOrWinter: the returned value (0 before the call)

utilVars == << inLine, inDelimiter, outTokens,
               inLat, inLong, inMonth, outSummerWinter >>

vars == << mpiSize, mpc, part, item, inputHeadersLst, paramsLst, paramsLstTmp,
           calcAOT, useAOTImage, calc6SSREF, exportMetaData, avgAOT, e,
           toWorker, toMaster, wpc, tskData,
           sentStart, gotReady, gotDone, mBarriers, wBarriers, seen, exitSent,
           utilVars >>

masterVars == << mpc, part, item, inputHeadersLst, paramsLst, paramsLstTmp,
                 calcAOT, useAOTImage, calc6SSREF, exportMetaData, avgAOT, e >>
masterLog == << sentStart, gotReady, gotDone, mBarriers, exitSent >>
workerVars == << wpc, tskData, wBarriers, seen >>
protocolVars == << mpiSize, masterVars, toWorker, toMaster, workerVars,
                   masterLog >>

Workers == 1 .. (mpiSize - 1)
AllRanks == 1 .. MaxWorkers

\* ------------------------------------------------------------ job record
\* prepParametersObj(inputHeader, ...): the job record of scene number i
prepParametersObj(i, scene) ==
    [idx |-> i, scene |-> scene, aotVal |-> None, parts |-> << >>]

\* _runARCSIPart1.._runARCSIPart4: the stage's fields are populated; stage 1
\* derives the scene's AOT value
runARCSIPart(p, paramsObj) ==
    IF p = ARCSIPART1
    THEN [paramsObj EXCEPT !.aotVal = paramsObj.scene, !.parts = Append(@, p)]
    ELSE [paramsObj EXCEPT !.parts = Append(@, p)]

\* ---------------------------------------------------------------- messages
Msg(tag, data) == [tag |-> tag, data |-> data]

\* mpiComm.recv(source, tag): position of the first message with that tag
RECURSIVE FirstWithTag(_, _, _)
FirstWithTag(q, tag, k) ==
    IF k > Len(q) THEN 0
    ELSE IF q[k].tag = tag THEN k
    ELSE FirstWithTag(q, tag, k + 1)

RemoveAt(q, k) == SubSeq(q, 1, k - 1) \o SubSeq(q, k + 1, Len(q))

\* ------------------------------------------------------------------- Init
\* no ARCSIUtils function has been called (the MPI script calls none)
UtilIdle ==
    /\ inLine = << >>
    /\ inDelimiter = ","
    /\ outTokens = << >>
    /\ inLat = 0
    /\ inLong = 0
    /\ inMonth = 1
    /\ outSummerWinter = 0

\* the ranks right after start-up
ProtocolInit ==
    /\ mpiSize \in 2 .. (MaxWorkers + 1)
    /\ mpc = "init"
    /\ part = ARCSIPART1
    /\ item = 1
    /\ inputHeadersLst = << >>
    /\ paramsLst = << >>
    /\ paramsLstTmp = << >>
    /\ calcAOT = FALSE
    /\ useAOTImage = FALSE
    /\ calc6SSREF = FALSE
    /\ exportMetaData = FALSE
    /\ avgAOT = None
    /\ e = None
    /\ toWorker = [w \in AllRanks |-> << >>]
    /\ toMaster = [w \in AllRanks |-> << >>]
    /\ wpc = [w \in AllRanks |-> "loop"]
    /\ tskData = [w \in AllRanks |-> None]
    /\ sentStart = {}
    /\ gotReady = {}
    /\ gotDone = {}
    /\ mBarriers = {}
    /\ wBarriers = [w \in AllRanks |-> 0]
    /\ seen = [w \in AllRanks |-> << >>]
    /\ exitSent = [w \in AllRanks |-> 0]

Init == ProtocolInit /\ UtilIdle

\* ----------------------------------------------------------------- master
\* the flags set from the first scene's products: useAOTImage only with calcAOT
ProductFlags ==
    { f \in [calcAOT : BOOLEAN, useAOTImage : BOOLEAN,
             calc6SSREF : BOOLEAN, exportMetaData : BOOLEAN] :
        f.useAOTImage => f.calcAOT }

\* the job lists the initialisation can build: one paramsObj per input header
HeaderLists ==
    UNION { [1 .. k -> SceneAOTs] : k \in 1 .. MaxJobs }

\* mutant: the rounds of PART 2 and PART 3 are not conditional
NextPartAll(p) == p + 1

\* the stage that follows stage p in this run (the `if calc6SSREF:` and
\* `if exportMetaData:` blocks are skipped when their flag is off); past
\* ARCSIPART4 none is left
NextPart(p) ==
    IF p < ARCSIPART2 /\ calc6SSREF THEN ARCSIPART2
    ELSE IF p < ARCSIPART3 /\ exportMetaData THEN ARCSIPART3
    ELSE IF p < ARCSIPART4 THEN ARCSIPART4
    ELSE ARCSIPART4 + 1

\* the loop over paramsLst that adds the present aotVal to aotSum and counts
\* them in aotN, from position k on
RECURSIVE AotSumN(_, _, _, _)
AotSumN(lst, k, aotSum, aotN) ==
    IF k > Len(lst) THEN << aotSum, aotN >>
    ELSE IF lst[k].aotVal # None
         THEN AotSumN(lst, k + 1, aotSum + lst[k].aotVal[1], aotN + 1)
         ELSE AotSumN(lst, k + 1, aotSum, aotN)

\* mutant: aotN counts every record
AvgAOTAll(lst) ==
    LET sn == AotSumN(lst, 1, 0, 0)
    IN  IF Len(lst) > 0 THEN sn[1] \div Len(lst) ELSE DefaultAOT

\* mutant: no default, 0.0 when no record has a value
AvgAOTZero(lst) ==
    LET sn == AotSumN(lst, 1, 0, 0)
    IN  IF sn[2] > 0 THEN sn[1] \div sn[2] ELSE 0

\* avgAOT = aotSum / aotN if aotN > 0, else 0.05
AvgAOT(lst) ==
    LET sn == AotSumN(lst, 1, 0, 0)
    IN  IF sn[2] > 0 THEN sn[1] \div sn[2] ELSE DefaultAOT

\* mutant: the last record is given the AOT value of the first record
WriteBackFirst(lst, avg) ==
    IF lst = << >> THEN lst
    ELSE [lst EXCEPT ![Len(lst)].aotVal = lst[1].aotVal]

\* `for params in paramsLst: paramsObj.aotVal = avgAOT`: paramsObj is still
\* bound to the last record of the summing loop, so that record is written
\* once per iteration and no other record is written
WriteBackAOT(lst, avg) ==
    IF lst = << >> THEN lst
    ELSE [lst EXCEPT ![Len(lst)].aotVal = Some(avg)]

\* sys.exit() of the argument checks: the master leaves without any message
MasterSysExit ==
    /\ mpc = "init"
    /\ mpc' = "exited"
    /\ UNCHANGED << utilVars, mpiSize, part, item, inputHeadersLst, paramsLst, paramsLstTmp,
                    calcAOT, useAOTImage, calc6SSREF, exportMetaData, avgAOT, e,
                    toWorker, toMaster, workerVars, masterLog >>

\* an exception inside the try block while building the job list
MasterInitRaise ==
    /\ mpc = "init"
    /\ mpc' = "except"
    /\ e' = Some("Exception")
    /\ UNCHANGED << utilVars, mpiSize, part, item, inputHeadersLst, paramsLst, paramsLstTmp,
                    calcAOT, useAOTImage, calc6SSREF, exportMetaData, avgAOT,
                    toWorker, toMaster, workerVars, masterLog >>

\* the initialisation: paramsLst built from the input headers, flags set,
\* then the set-up of PART 1
MasterInitialise ==
    /\ mpc = "init"
    /\ \E hdrs \in HeaderLists, f \in ProductFlags :
        /\ inputHeadersLst' = hdrs
        /\ paramsLst' = [i \in 1 .. Len(hdrs) |-> prepParametersObj(i, hdrs[i])]
        /\ calcAOT' = f.calcAOT
        /\ useAOTImage' = f.useAOTImage
        /\ calc6SSREF' = f.calc6SSREF
        /\ exportMetaData' = f.exportMetaData
    /\ mpc' = "dispatch"
    /\ part' = ARCSIPART1
    /\ item' = 1
    /\ paramsLstTmp' = << >>
    /\ UNCHANGED << utilVars, mpiSize, avgAOT, e, toWorker, toMaster, workerVars, masterLog >>

\* mutant: the jobs move on by one rank with every stage
JobForRotated(rank) == ((rank + part) % (mpiSize - 1)) + 1

\* mutant: every rank is sent the first job
JobForFirst(rank) == 1

\* paramsLst[item - 1]: the position (from 1) of the job sent to rank `item`
JobFor(rank) == rank

\* mutant: the START is sent twice to the rank that reported READY
DispatchLoopTwice(last) ==
    /\ mpc = "dispatch"
    /\ LET k == FirstWithTag(toMaster[item], READY, 1) IN
        /\ k > 0
        /\ toMaster' = [toMaster EXCEPT ![item] = RemoveAt(@, k)]
        /\ gotReady' = gotReady \cup {<< part, item >>}
        /\ IF JobFor(item) <= Len(paramsLst)
           THEN /\ toWorker' = [toWorker EXCEPT ![item] =
                        Append(Append(@,
                            Msg(START, << part, paramsLst[JobFor(item)] >>)),
                            Msg(START, << part, paramsLst[JobFor(item)] >>))]
                /\ sentStart' = sentStart
                        \cup {<< part, item, paramsLst[JobFor(item)] >>}
                /\ IF item < last
                   THEN /\ item' = item + 1
                        /\ mpc' = "dispatch"
                   ELSE /\ item' = 1
                        /\ mpc' = "gather"
                /\ UNCHANGED e
           ELSE /\ mpc' = "except"
                /\ e' = Some("IndexError")
                /\ UNCHANGED << toWorker, sentStart, item >>
    /\ UNCHANGED << utilVars, mpiSize, part, inputHeadersLst, paramsLst, paramsLstTmp,
                    calcAOT, useAOTImage, calc6SSREF, exportMetaData, avgAOT,
                    workerVars, gotDone, mBarriers, exitSent >>

\* one iteration of the dispatch loop up to rank `last`: recv READY from item,
\* send [stage, paramsLst[item - 1]] to item; IndexError when the list is short
DispatchLoop(last) ==
    /\ mpc = "dispatch"
    /\ LET k == FirstWithTag(toMaster[item], READY, 1) IN
        /\ k > 0
        /\ toMaster' = [toMaster EXCEPT ![item] = RemoveAt(@, k)]
        /\ gotReady' = gotReady \cup {<< part, item >>}
        /\ IF JobFor(item) <= Len(paramsLst)
           THEN /\ toWorker' = [toWorker EXCEPT ![item] =
                        Append(@, Msg(START, << part, paramsLst[JobFor(item)] >>))]
                /\ sentStart' = sentStart
                        \cup {<< part, item, paramsLst[JobFor(item)] >>}
                /\ IF item < last
                   THEN /\ item' = item + 1
                        /\ mpc' = "dispatch"
                   ELSE /\ item' = 1
                        /\ mpc' = "gather"
                /\ UNCHANGED e
           ELSE /\ mpc' = "except"
                /\ e' = Some("IndexError")
                /\ UNCHANGED << toWorker, sentStart, item >>
    /\ UNCHANGED << utilVars, mpiSize, part, inputHeadersLst, paramsLst, paramsLstTmp,
                    calcAOT, useAOTImage, calc6SSREF, exportMetaData, avgAOT,
                    workerVars, gotDone, mBarriers, exitSent >>

\* mutant: the dispatch loop runs over range(1, mpiSize - 1)
MasterDispatchShort == DispatchLoop(mpiSize - 2)

\* `for item in range(1, mpiSize)` of the dispatch loops
MasterDispatch == DispatchLoop(mpiSize - 1)

\* mutant: every result is written into paramsLst as soon as it is received
GatherLoopInPlace(last) ==
    /\ mpc = "gather"
    /\ LET k == FirstWithTag(toMaster[item], DONE, 1) IN
        /\ k > 0
        /\ toMaster' = [toMaster EXCEPT ![item] = RemoveAt(@, k)]
        /\ gotDone' = gotDone \cup {<< part, item >>}
        /\ paramsLstTmp' = Append(paramsLstTmp, toMaster[item][k].data)
        /\ IF item < last
           THEN /\ paramsLst' = [paramsLst EXCEPT ![item] = toMaster[item][k].data]
                /\ item' = item + 1
                /\ UNCHANGED << mpc, mBarriers >>
           ELSE /\ paramsLst' = Append(paramsLstTmp, toMaster[item][k].data)
                /\ item' = 1
                /\ mpc' = "barrier"
                /\ mBarriers' = mBarriers \cup {part}
    /\ UNCHANGED << utilVars, mpiSize, part, inputHeadersLst,
                    calcAOT, useAOTImage, calc6SSREF, exportMetaData, avgAOT, e,
                    toWorker, workerVars, sentStart, gotReady, exitSent >>

\* mutant: paramsLst is overwritten with the results so far on every DONE
GatherLoopEager(last) ==
    /\ mpc = "gather"
    /\ LET k == FirstWithTag(toMaster[item], DONE, 1) IN
        /\ k > 0
        /\ toMaster' = [toMaster EXCEPT ![item] = RemoveAt(@, k)]
        /\ gotDone' = gotDone \cup {<< part, item >>}
        /\ paramsLst' = Append(paramsLstTmp, toMaster[item][k].data)
        /\ paramsLstTmp' = Append(paramsLstTmp, toMaster[item][k].data)
        /\ IF item < last
           THEN /\ item' = item + 1
                /\ UNCHANGED << mpc, mBarriers >>
           ELSE /\ item' = 1
                /\ mpc' = "barrier"
                /\ mBarriers' = mBarriers \cup {part}
    /\ UNCHANGED << utilVars, mpiSize, part, inputHeadersLst,
                    calcAOT, useAOTImage, calc6SSREF, exportMetaData, avgAOT, e,
                    toWorker, workerVars, sentStart, gotReady, exitSent >>

\* one iteration of the gather loop up to rank `last`: recv DONE from item,
\* append the result; after the last one paramsLst = paramsLstTmp and the
\* master calls Barrier
GatherLoop(last) ==
    /\ mpc = "gather"
    /\ LET k == FirstWithTag(toMaster[item], DONE, 1) IN
        /\ k > 0
        /\ toMaster' = [toMaster EXCEPT ![item] = RemoveAt(@, k)]
        /\ gotDone' = gotDone \cup {<< part, item >>}
        /\ IF item < last
           THEN /\ paramsLstTmp' = Append(paramsLstTmp, toMaster[item][k].data)
                /\ item' = item + 1
                /\ UNCHANGED << mpc, paramsLst, mBarriers >>
           ELSE /\ paramsLst' = Append(paramsLstTmp, toMaster[item][k].data)
                /\ paramsLstTmp' = Append(paramsLstTmp, toMaster[item][k].data)
                /\ item' = 1
                /\ mpc' = "barrier"
                /\ mBarriers' = mBarriers \cup {part}
    /\ UNCHANGED << utilVars, mpiSize, part, inputHeadersLst,
                    calcAOT, useAOTImage, calc6SSREF, exportMetaData, avgAOT, e,
                    toWorker, workerVars, sentStart, gotReady, exitSent >>

\* mutant: the gather loop receives with source=MPI.ANY_SOURCE, so the
\* results are appended in the order the workers finish
MasterGatherAnySource ==
    /\ mpc = "gather"
    /\ \E src \in Workers :
        LET k == FirstWithTag(toMaster[src], DONE, 1) IN
        /\ k > 0
        /\ toMaster' = [toMaster EXCEPT ![src] = RemoveAt(@, k)]
        /\ gotDone' = gotDone \cup {<< part, src >>}
        /\ IF item < mpiSize - 1
           THEN /\ paramsLstTmp' = Append(paramsLstTmp, toMaster[src][k].data)
                /\ item' = item + 1
                /\ UNCHANGED << mpc, paramsLst, mBarriers >>
           ELSE /\ paramsLst' = Append(paramsLstTmp, toMaster[src][k].data)
                /\ paramsLstTmp' = Append(paramsLstTmp, toMaster[src][k].data)
                /\ item' = 1
                /\ mpc' = "barrier"
                /\ mBarriers' = mBarriers \cup {part}
    /\ UNCHANGED << utilVars, mpiSize, part, inputHeadersLst,
                    calcAOT, useAOTImage, calc6SSREF, exportMetaData, avgAOT, e,
                    toWorker, workerVars, sentStart, gotReady, exitSent >>

\* mutant: the gather loop runs over range(1, mpiSize - 1)
MasterGatherShort == GatherLoop(mpiSize - 2)

\* `for item in range(1, mpiSize)` of the gather loops
MasterGather == GatherLoop(mpiSize - 1)

\* mutant: a round is set up for whatever stage number comes next
MasterEnterAny(p) ==
    /\ mpc' = "dispatch"
    /\ part' = p
    /\ item' = 1
    /\ paramsLstTmp' = << >>

\* set-up of the round of stage p, or the KILL loop when no stage is left
MasterEnter(p) ==
    IF p \in arcsiStages
    THEN /\ mpc' = "dispatch"
         /\ part' = p
         /\ item' = 1
         /\ paramsLstTmp' = << >>
    ELSE /\ mpc' = "kill"
         /\ UNCHANGED << part, item, paramsLstTmp >>

\* mutant: the averaging is not under `if calcAOT:`
MasterAggregateAlways ==
    /\ mpc = "aggregate"
    /\ IF calcAOT /\ useAOTImage
       THEN /\ mpc' = "except"
            /\ e' = Some("ARCSIException")
            /\ UNCHANGED << part, item, paramsLst, paramsLstTmp, avgAOT >>
       ELSE /\ avgAOT' = Some(AvgAOT(paramsLst))
            /\ paramsLst' = WriteBackAOT(paramsLst, AvgAOT(paramsLst))
            /\ MasterEnter(NextPart(ARCSIPART1))
            /\ UNCHANGED e
    /\ UNCHANGED << utilVars, mpiSize, inputHeadersLst,
                    calcAOT, useAOTImage, calc6SSREF, exportMetaData,
                    toWorker, toMaster, workerVars, masterLog >>

\* the `if calcAOT:` block after the Barrier of PART 1
MasterAggregate ==
    /\ mpc = "aggregate"
    /\ IF calcAOT /\ useAOTImage
       THEN /\ mpc' = "except"
            /\ e' = Some("ARCSIException")
            /\ UNCHANGED << part, item, paramsLst, paramsLstTmp, avgAOT >>
       ELSE /\ IF calcAOT
               THEN /\ avgAOT' = Some(AvgAOT(paramsLst))
                    /\ paramsLst' = WriteBackAOT(paramsLst, AvgAOT(paramsLst))
               ELSE UNCHANGED << avgAOT, paramsLst >>
            /\ MasterEnter(NextPart(ARCSIPART1))
            /\ UNCHANGED e
    /\ UNCHANGED << utilVars, mpiSize, inputHeadersLst,
                    calcAOT, useAOTImage, calc6SSREF, exportMetaData,
                    toWorker, toMaster, workerVars, masterLog >>

\* mutant: the EXIT loop runs over range(mpiSize - 1)
SendExitSome ==
    /\ toWorker' = [w \in AllRanks |->
            IF w \in 1 .. (mpiSize - 2) THEN Append(toWorker[w], Msg(EXIT, None))
            ELSE toWorker[w]]
    /\ exitSent' = [w \in AllRanks |->
            IF w \in 1 .. (mpiSize - 2) THEN exitSent[w] + 1 ELSE exitSent[w]]

\* `for workerID in range(mpiSize): if workerID > 0: send EXIT`
SendExitAll ==
    /\ toWorker' = [w \in AllRanks |->
            IF w \in Workers THEN Append(toWorker[w], Msg(EXIT, None))
            ELSE toWorker[w]]
    /\ exitSent' = [w \in AllRanks |->
            IF w \in Workers THEN exitSent[w] + 1 ELSE exitSent[w]]

\* the KILL loop run from one of the positions `at`, then the master runs off
\* the end of the script
KillAt(at) ==
    /\ mpc \in at
    /\ SendExitAll
    /\ mpc' = "returned"
    /\ UNCHANGED << utilVars, mpiSize, part, item, inputHeadersLst, paramsLst, paramsLstTmp,
                    calcAOT, useAOTImage, calc6SSREF, exportMetaData, avgAOT, e,
                    toMaster, workerVars, sentStart, gotReady, gotDone, mBarriers >>

\* mutant: an exception is raised inside the try block after the KILL loop
MasterKillRaises ==
    /\ mpc = "kill"
    /\ SendExitAll
    /\ mpc' = "except"
    /\ e' = Some("Exception")
    /\ UNCHANGED << utilVars, mpiSize, part, item, inputHeadersLst, paramsLst, paramsLstTmp,
                    calcAOT, useAOTImage, calc6SSREF, exportMetaData, avgAOT,
                    toMaster, workerVars, sentStart, gotReady, gotDone, mBarriers >>

\* mutant: the KILL loop is also run before the results are gathered
MasterKillEarly == KillAt({"kill", "gather"})

\* KILL all workers, after the Barrier of PART 4
MasterKill == KillAt({"kill"})

\* mutant: the except handlers leave without the EXIT loop
MasterExceptSilent ==
    /\ mpc = "except"
    /\ \E debug \in BOOLEAN : mpc' = IF debug THEN "raised" ELSE "returned"
    /\ UNCHANGED << utilVars, mpiSize, part, item, inputHeadersLst, paramsLst, paramsLstTmp,
                    calcAOT, useAOTImage, calc6SSREF, exportMetaData, avgAOT, e,
                    toWorker, toMaster, workerVars, masterLog >>

\* the except handlers: EXIT to every worker, re-raise only if args.debug
MasterExcept ==
    /\ mpc = "except"
    /\ SendExitAll
    /\ \E debug \in BOOLEAN : mpc' = IF debug THEN "raised" ELSE "returned"
    /\ UNCHANGED << utilVars, mpiSize, part, item, inputHeadersLst, paramsLst, paramsLstTmp,
                    calcAOT, useAOTImage, calc6SSREF, exportMetaData, avgAOT, e,
                    toMaster, workerVars, sentStart, gotReady, gotDone, mBarriers >>

\* ---------------------------------------------------------------- workers
\* top of `while True`: mpiComm.send(None, dest=0, tag=READY)
WorkerReady(w) ==
    /\ wpc[w] = "loop"
    /\ toMaster' = [toMaster EXCEPT ![w] = Append(@, Msg(READY, None))]
    /\ wpc' = [wpc EXCEPT ![w] = "recv"]
    /\ UNCHANGED << utilVars, mpiSize, masterVars, toWorker, tskData, wBarriers, seen,
                    masterLog >>

\* mutant: the worker also takes a message while its stage function runs
WorkerRecvMidStage(w) ==
    /\ wpc[w] \in {"recv", "work"}
    /\ toWorker[w] # << >>
    /\ toWorker' = [toWorker EXCEPT ![w] = Tail(@)]
    /\ LET m == Head(toWorker[w]) IN
        IF m.tag = START
        THEN /\ tskData' = [tskData EXCEPT ![w] = m.data]
             /\ seen' = [seen EXCEPT ![w] = Append(@, m.data[1])]
             /\ wpc' = [wpc EXCEPT ![w] = "work"]
             /\ UNCHANGED << toMaster, wBarriers >>
        ELSE IF m.tag = EXIT
        THEN /\ wpc' = [wpc EXCEPT ![w] = "terminated"]
             /\ toMaster' = [toMaster EXCEPT ![w] = Append(@, Msg(EXIT, None))]
             /\ UNCHANGED << tskData, seen, wBarriers >>
        ELSE /\ wpc' = [wpc EXCEPT ![w] = "barrier"]
             /\ wBarriers' = [wBarriers EXCEPT ![w] = @ + 1]
             /\ UNCHANGED << tskData, seen, toMaster >>
    /\ UNCHANGED << utilVars, mpiSize, masterVars, masterLog >>

\* tskData = mpiComm.recv(source=0, tag=ANY_TAG): START goes to the stage
\* function; EXIT breaks the loop, and the worker's last statement sends EXIT
WorkerRecv(w) ==
    /\ wpc[w] = "recv"
    /\ toWorker[w] # << >>
    /\ toWorker' = [toWorker EXCEPT ![w] = Tail(@)]
    /\ LET m == Head(toWorker[w]) IN
        IF m.tag = START
        THEN /\ tskData' = [tskData EXCEPT ![w] = m.data]
             /\ seen' = [seen EXCEPT ![w] = Append(@, m.data[1])]
             /\ wpc' = [wpc EXCEPT ![w] = "work"]
             /\ UNCHANGED << toMaster, wBarriers >>
        ELSE IF m.tag = EXIT
        THEN /\ wpc' = [wpc EXCEPT ![w] = "terminated"]
             /\ toMaster' = [toMaster EXCEPT ![w] = Append(@, Msg(EXIT, None))]
             /\ UNCHANGED << tskData, seen, wBarriers >>
        ELSE /\ wpc' = [wpc EXCEPT ![w] = "barrier"]
             /\ wBarriers' = [wBarriers EXCEPT ![w] = @ + 1]
             /\ UNCHANGED << tskData, seen, toMaster >>
    /\ UNCHANGED << utilVars, mpiSize, masterVars, masterLog >>

\* mpiComm.send(paramsObj, dest=0, tag=DONE), then the Barrier call
WorkerSendDone(w, paramsObj) ==
    /\ wpc[w] = "work"
    /\ tskData[w][1] \in arcsiStages
    /\ toMaster' = [toMaster EXCEPT ![w] = Append(@, Msg(DONE, paramsObj))]
    /\ wpc' = [wpc EXCEPT ![w] = "barrier"]
    /\ wBarriers' = [wBarriers EXCEPT ![w] = @ + 1]
    /\ UNCHANGED << utilVars, mpiSize, masterVars, toWorker, tskData, seen, masterLog >>

\* mutant: the worker sends back the record it received
WorkerDoneStale(w) == WorkerSendDone(w, tskData[w][2])

\* the stage function named by tskData[0] returns: its result is sent
WorkerDone(w) ==
    WorkerSendDone(w, runARCSIPart(tskData[w][1], tskData[w][2]))

\* the stage function raises (or the stage is not recognised): nothing in the
\* worker loop catches it, the worker process ends with the exception
WorkerRaise(w) ==
    /\ wpc[w] = "work"
    /\ wpc' = [wpc EXCEPT ![w] = "crashed"]
    /\ UNCHANGED << utilVars, mpiSize, masterVars, toWorker, toMaster, tskData, wBarriers,
                    seen, masterLog >>

\* ---------------------------------------------------------------- barrier
\* mutant: the Barrier returns once the workers have called it
BarrierReachedWorkers == \A w \in Workers : wpc[w] = "barrier"

\* mpiComm.Barrier() returns in every rank once all mpiSize ranks called it
BarrierReached ==
    /\ mpc = "barrier"
    /\ \A w \in Workers : wpc[w] = "barrier"

Barrier ==
    /\ BarrierReached
    /\ wpc' = [w \in AllRanks |-> IF w \in Workers THEN "loop" ELSE wpc[w]]
    /\ IF part = ARCSIPART1
       THEN /\ mpc' = "aggregate"
            /\ UNCHANGED << part, item, paramsLstTmp >>
       ELSE MasterEnter(NextPart(part))
    /\ UNCHANGED << utilVars, mpiSize, inputHeadersLst, paramsLst,
                    calcAOT, useAOTImage, calc6SSREF, exportMetaData, avgAOT, e,
                    toWorker, toMaster, tskData, wBarriers, seen, masterLog >>

\* ------------------------------------------------------------------ system
MasterStep ==
    \/ MasterSysExit
    \/ MasterInitRaise
    \/ MasterInitialise
    \/ MasterDispatch
    \/ MasterGather
    \/ MasterAggregate
    \/ MasterKill
    \/ MasterExcept

WorkerStep(w) ==
    \/ WorkerReady(w)
    \/ WorkerRecv(w)
    \/ WorkerDone(w)
    \/ WorkerRaise(w)

Next ==
    \/ MasterStep
    \/ \E w \in Workers : WorkerStep(w)
    \/ Barrier

Spec == Init /\ [][Next]_vars

\* the ranks are processes that keep running: while some rank can take a step
\* (or a Barrier all ranks wait in can return), a step is eventually taken
LiveSpec == Spec /\ WF_vars(Next)

\* --------------------------------------------------------------- ARCSIUtils
\* the characters of the lines and the delimiters that are tried
Chars == {"a", "b", ","}
Delimiters == {",", "a"}
Lines == UNION { [1 .. n -> Chars] : n \in 0 .. MaxLineLen }

\* the loop `for i in range(len(line))` of stringTokenizer from position i on
\* (positions from 1), with the list tokens and the running token
RECURSIVE TokenizeFrom(_, _, _, _, _)
TokenizeFrom(line, delimiter, i, tokens, token) ==
    IF i > Len(line) THEN Append(tokens, token)
    ELSE IF line[i] = delimiter
         THEN TokenizeFrom(line, delimiter, i + 1, Append(tokens, token), << >>)
         ELSE TokenizeFrom(line, delimiter, i + 1, tokens,
                           Append(token, line[i]))

\* mutant: empty tokens are left out of the list
stringTokenizerSkipEmpty(line, delimiter) ==
    SelectSeq(TokenizeFrom(line, delimiter, 1, << >>, << >>),
              LAMBDA t : t # << >>)

\* ARCSIUtils.stringTokenizer(line, delimiter)
stringTokenizer(line, delimiter) ==
    TokenizeFrom(line, delimiter, 1, << >>, << >>)

\* a caller picks a line and a delimiter
TokInit ==
    /\ ProtocolInit
    /\ mpiSize = 2
    /\ inLine \in Lines
    /\ inDelimiter \in Delimiters
    /\ outTokens = << >>
    /\ inLat = 0
    /\ inLong = 0
    /\ inMonth = 1
    /\ outSummerWinter = 0

\* tokens = stringTokenizer(line, delimiter)
CallStringTokenizer ==
    /\ outTokens = << >>
    /\ outTokens' = stringTokenizer(inLine, inDelimiter)
    /\ UNCHANGED << protocolVars, inLine, inDelimiter,
                    inLat, inLong, inMonth, outSummerWinter >>

TokNext == CallStringTokenizer

TokSpec == TokInit /\ [][TokNext]_vars

\* the latitudes, longitudes and months that are tried
Lats == (0 - MaxLat) .. MaxLat
Longs == (0 - MaxLat) .. MaxLat
Months == 1 .. 12

\* ARCSIUtils.isSummerOrWinter(lat, long, date): 1 is summer, 2 is winter
isSummerOrWinter(lat, long, date) ==
    IF lat < 0
    THEN IF date.month > 4 /\ date.month < 11 THEN 2 ELSE 1
    ELSE IF date.month > 3 /\ date.month < 10 THEN 1 ELSE 2

\* a caller picks a position and a date
SeasonInit ==
    /\ ProtocolInit
    /\ mpiSize = 2
    /\ inLine = << >>
    /\ inDelimiter = ","
    /\ outTokens = << >>
    /\ inLat \in Lats
    /\ inLong \in Longs
    /\ inMonth \in Months
    /\ outSummerWinter = 0

\* summerWinter = isSummerOrWinter(lat, long, date)
CallIsSummerOrWinter ==
    /\ outSummerWinter = 0
    /\ outSummerWinter' = isSummerOrWinter(inLat, inLong, [month |-> inMonth])
    /\ UNCHANGED << protocolVars, inLine, inDelimiter, outTokens,
                    inLat, inLong, inMonth >>

SeasonNext == CallIsSummerOrWinter

SeasonSpec == SeasonInit /\ [][SeasonNext]_vars

\* ------------------------------------------------------------------ claims
StrictlyIncreasing(q) == \A i \in 1 .. Len(q) - 1 : q[i] < q[i + 1]

\* C1: a START of a stage is sent only when the DONE of every START of every
\* earlier stage has been received by the master, and the stage ids a worker
\* receives are strictly increasing.
C1_StageOrder ==
    /\ \A s \in sentStart : \A t \in sentStart :
            t[1] < s[1] => << t[1], t[2] >> \in gotDone
    /\ \A w \in Workers : StrictlyIncreasing(seen[w])

\* a worker has received the STARTs of two stages
C1_Witness == \E w \in Workers : Len(seen[w]) >= 2 /\ mpiSize > 2

\* the step in which the master receives the last DONE of a round
RoundCompletes == mpc = "gather" /\ mpc' = "barrier"

\* C2 (as stated): a round leaves the master with as many records as were
\* submitted, position i holding the stage result of submitted position i.
C2_Original ==
    [][RoundCompletes =>
        /\ Len(paramsLst') = Len(paramsLst)
        /\ \A i \in 1 .. Len(paramsLst) :
                paramsLst'[i] = runARCSIPart(part, paramsLst[i])]_vars

\* C2 (amended): a completed round leaves the master with exactly N =
\* mpiSize - 1 records, position i holding the stage result of submitted
\* position i (so exactly K records in order when K = N; the first N of them
\* when K > N).
C2_RoundResult ==
    [][RoundCompletes =>
        /\ Len(paramsLst') = mpiSize - 1
        /\ Len(paramsLst) >= mpiSize - 1
        /\ \A i \in 1 .. (mpiSize - 1) :
                paramsLst'[i] = runARCSIPart(part, paramsLst[i])]_vars

\* a round of two jobs on two workers has completed
C2_Witness ==
    /\ mpc = "barrier"
    /\ mpiSize = 3
    /\ Len(inputHeadersLst) = 2
    /\ Len(paramsLst) = 2

\* C3 (as stated): every job of the list is dispatched in each executed stage.
C3_Original ==
    mpc = "barrier" =>
        \A i \in 1 .. Len(inputHeadersLst) :
            \E s \in sentStart : s[1] = part /\ s[3].idx = i

\* C3 (amended): each executed stage dispatches one job to each worker in a
\* single wave, job i to rank i; with K > N exactly the jobs 1..N are
\* dispatched and the jobs N+1..K never are.
C3_SingleWave ==
    /\ \A s \in sentStart : s[3].idx = s[2] /\ s[2] \in Workers
    /\ \A s \in sentStart : \A t \in sentStart :
            (s[1] = t[1] /\ s[2] = t[2]) => s = t
    /\ mpc \in {"gather", "barrier"} =>
            { s[3].idx : s \in { t \in sentStart : t[1] = part } } = Workers

\* two jobs on one worker, and the dispatch loop of stage 4 has finished
C3_Witness ==
    /\ Len(inputHeadersLst) = 2
    /\ mpiSize = 2
    /\ mpc = "gather"
    /\ part = ARCSIPART4

\* the stages executed before stage p in this run, in order
ExecutedBefore(p) ==
    SelectSeq(<< ARCSIPART1, ARCSIPART2, ARCSIPART3, ARCSIPART4 >>,
              LAMBDA q : /\ q < p
                         /\ q = ARCSIPART2 => calc6SSREF
                         /\ q = ARCSIPART3 => exportMetaData)

\* C4: the record sent for index i in a stage is the record of scene i as
\* returned by the stages executed before it (never an earlier copy, never
\* another index's record), apart from the aggregation write to aotVal.
C4_CrossStage ==
    \A s \in sentStart :
        /\ s[3].idx = s[2]
        /\ s[3].scene = inputHeadersLst[s[2]]
        /\ s[3].parts = ExecutedBefore(s[1])
        /\ s[3].aotVal \in
              IF s[1] = ARCSIPART1 THEN {None}
              ELSE IF avgAOT = None THEN {s[3].scene}
              ELSE {s[3].scene, avgAOT}

\* rank 2 has been sent its record for stage 4 after stages 1, 2 and 3 and the
\* aggregation
C4_Witness ==
    \E s \in sentStart :
        /\ s[1] = ARCSIPART4
        /\ s[2] = 2
        /\ Len(s[3].parts) = 3
        /\ avgAOT # None

\* the aggregation has run and no START of a later stage has been sent yet
AfterAggregation ==
    /\ avgAOT # None
    /\ \A s \in sentStart : s[1] = ARCSIPART1

\* C5: after the aggregation and before any stage-2 START, every record of the
\* master's job list carries the computed summary in aotVal.
C5_AllRecordsCarryAvg ==
    AfterAggregation =>
        \A i \in 1 .. Len(paramsLst) : paramsLst[i].aotVal = avgAOT

\* the step in which the master computes avgAOT
AggregationRuns ==
    /\ mpc = "aggregate"
    /\ mpc' # "aggregate"
    /\ calcAOT
    /\ ~useAOTImage

\* positions of the records whose aotVal is present
Present(lst) == { i \in 1 .. Len(lst) : lst[i].aotVal # None }

RECURSIVE SumOver(_, _)
SumOver(lst, S) ==
    IF S = {} THEN 0
    ELSE LET i == CHOOSE j \in S : TRUE
         IN  lst[i].aotVal[1] + SumOver(lst, S \ {i})

\* C6: the summary is the sum of the present aotVal divided by their number;
\* records without a value count in neither (summary * count = sum).
C6_MeanOfPresent ==
    [][(AggregationRuns /\ Present(paramsLst) # {}) =>
        /\ avgAOT' # None
        /\ avgAOT'[1] * Cardinality(Present(paramsLst))
              = SumOver(paramsLst, Present(paramsLst))]_vars

\* the summary of the values 0.06 and 0.18 has been computed: 0.12
C6_Witness == avgAOT = Some(120) /\ mpiSize = 3

\* C7: when no record has a value the aggregation yields the default 0.05
\* without an error and the master goes on to the next stage round.
C7_DefaultWhenAbsent ==
    [][(AggregationRuns /\ Present(paramsLst) = {}) =>
        /\ avgAOT' = Some(DefaultAOT)
        /\ mpc' = "dispatch"
        /\ part' \in {ARCSIPART2, ARCSIPART3, ARCSIPART4}]_vars

\* the default has been computed for two records without a value and the
\* master is in the next round
C7_Witness ==
    /\ avgAOT = Some(DefaultAOT)
    /\ mpiSize = 3
    /\ mpc = "dispatch"
    /\ part # ARCSIPART1

\* stage p left no trace: no START, READY, DONE or Barrier of it at the
\* master, no worker received it, no record went through it
NoTraceOf(p) ==
    /\ \A s \in sentStart : s[1] # p
    /\ \A r \in gotReady \cup gotDone : r[1] # p
    /\ p \notin mBarriers
    /\ \A w \in Workers : \A k \in 1 .. Len(seen[w]) : seen[w][k] # p
    /\ \A i \in 1 .. Len(paramsLst) :
            \A k \in 1 .. Len(paramsLst[i].parts) : paramsLst[i].parts[k] # p

\* the records of two lists agree in everything but aotVal
SameButAOT(l1, l2) ==
    /\ Len(l1) = Len(l2)
    /\ \A i \in 1 .. Len(l1) :
            [l1[i] EXCEPT !.aotVal = None] = [l2[i] EXCEPT !.aotVal = None]

\* C8: a stage the product set does not require has no START, READY, DONE or
\* Barrier, and the master's job list goes from the previous executed stage
\* (or the aggregation, which writes aotVal only) to the next executed stage
\* unchanged.
C8_SkippedStages ==
    /\ [](~calc6SSREF => NoTraceOf(ARCSIPART2))
    /\ [](~exportMetaData => NoTraceOf(ARCSIPART3))
    /\ [][part' # part =>
            IF mpc = "aggregate" /\ calcAOT
            THEN SameButAOT(paramsLst', paramsLst)
            ELSE paramsLst' = paramsLst]_vars

\* stages 2 and 3 are both skipped and the START of stage 4 has been sent to
\* rank 2
C8_Witness ==
    /\ ~calc6SSREF
    /\ ~exportMetaData
    /\ \E s \in sentStart : s[1] = ARCSIPART4 /\ s[2] = 2

\* C9: without an error the master sends EXIT (once, to every worker) only
\* after it has gathered every stage-4 result and passed the Barrier, and then
\* returns; no EXIT has been sent while the master is in a stage round.
C9_ExitAfterStage4 ==
    /\ (e = None /\ \E w \in Workers : exitSent[w] > 0) =>
            /\ mpc = "returned"
            /\ ARCSIPART4 \in mBarriers
            /\ \A w \in Workers :
                    /\ << ARCSIPART4, w >> \in gotDone
                    /\ exitSent[w] = 1
    /\ mpc \in {"dispatch", "gather", "barrier", "aggregate", "kill"} =>
            \A w \in Workers : exitSent[w] = 0

\* the master has returned from a run without error on two workers
C9_Witness ==
    /\ mpc = "returned"
    /\ e = None
    /\ mpiSize = 3
    /\ exitSent[2] = 1

\* the master has left the script and every worker has left its loop
AllTerminated ==
    /\ mpc \in {"returned", "raised"}
    /\ \A w \in Workers : wpc[w] = "terminated"

\* C10: with as many jobs as workers, once the master has entered the pipeline
\* every fair execution in which no stage function fails reaches the state in
\* which the master has left the script and all workers have left their loop.
C10_Terminates ==
    (mpc = "dispatch" /\ Len(inputHeadersLst) = mpiSize - 1)
        ~> (AllTerminated \/ \E w \in Workers : wpc[w] = "crashed")

\* two jobs on two workers, all four stages run, everything has terminated
C10_Witness ==
    /\ AllTerminated
    /\ mpiSize = 3
    /\ Len(inputHeadersLst) = 2
    /\ e = None
    /\ mBarriers = arcsiStages

\* the master has left the script: it ran off its end, an except handler
\* re-raised, or an argument check called sys.exit()
MasterLeft == mpc \in {"returned", "raised", "exited"}

\* the last message the master put on the channel to rank w is an EXIT
LastSentIsExit(w) ==
    /\ exitSent[w] = 1
    /\ \/ wpc[w] = "terminated"
       \/ /\ toWorker[w] # << >>
          /\ toWorker[w][Len(toWorker[w])].tag = EXIT

\* C11: an error raised inside the master's pipeline is held by an except
\* handler, and when it leaves the master (re-raised or swallowed) the master
\* has sent EXIT, once, to every worker 1..N; the handler's step is the one
\* that sends them.
C11_ExitBeforeErrorLeaves ==
    /\ [](e # None => mpc \in {"except", "returned", "raised"})
    /\ []((e # None /\ MasterLeft) => \A w \in Workers : LastSentIsExit(w))
    /\ [][(mpc = "except" /\ mpc' # "except") =>
            \A w \in Workers :
                /\ exitSent'[w] = exitSent[w] + 1
                /\ toWorker'[w] = Append(toWorker[w], Msg(EXIT, None))]_vars

\* the aggregation raised after stage 1 on two workers, the handler re-raised
C11_Witness ==
    /\ mpc = "raised"
    /\ e = Some("ARCSIException")
    /\ mpiSize = 3
    /\ exitSent[1] = 1
    /\ exitSent[2] = 1

\* worker w waits in a call that cannot return once the master has left: a
\* recv with nothing on its channel, or a Barrier (which needs rank 0)
Parked(w) ==
    \/ wpc[w] = "recv" /\ toWorker[w] = << >>
    \/ wpc[w] = "barrier"

\* C12: once the master has left the script (normally, through an except
\* handler, or through a sys.exit() before the pipeline) no worker is parked
\* in a receive or a barrier that can never return.
C12_NoWorkerParked ==
    MasterLeft => \A w \in Workers : ~Parked(w)

\* a stage function has failed in some worker
StageFailed == \E w \in Workers : wpc[w] = "crashed"

\* no rank can take a step any more
Quiescent == ~ENABLED Next

\* C13: when a stage function has failed and the run has come to rest, the
\* master has left with the error, every worker has been sent (and every
\* running worker has received) EXIT exactly once, and neither the master nor
\* a worker is blocked in a receive or a barrier.
C13_FailureShutsDown ==
    (StageFailed /\ Quiescent) =>
        /\ mpc \in {"returned", "raised"}
        /\ e # None
        /\ \A w \in Workers :
                /\ exitSent[w] = 1
                /\ wpc[w] \in {"terminated", "crashed"}

\* the step in which worker w comes out of its stage function call
LeavesStageCall(w) == wpc[w] = "work" /\ wpc'[w] # "work"

\* C14: however the stage function call of a worker ends (result or failure),
\* the worker sends a DONE message to the master and goes on to the Barrier of
\* its loop; the worker loop never ends with the failure.
C14_FailureCaptured ==
    [][\A w \in Workers : LeavesStageCall(w) =>
            /\ wpc'[w] = "barrier"
            /\ Len(toMaster'[w]) = Len(toMaster[w]) + 1
            /\ toMaster'[w][Len(toMaster'[w])].tag = DONE]_vars

\* C15: the master returns normally only from a run in which no error was
\* raised, and then every record of its job list went through every stage the
\* run executes; a run in which an error was raised ends with the error.
C15_ErrorIsOutcome ==
    mpc = "returned" =>
        /\ e = None
        /\ \A i \in 1 .. Len(paramsLst) :
                paramsLst[i].parts = ExecutedBefore(ARCSIPART4 + 1)

\* a configuration error has been detected: an argument check called
\* sys.exit(), or the AOT-image conflict of --multi raised its ARCSIException
ConfigError == mpc = "exited" \/ e = Some("ARCSIException")

\* C16: when a configuration error has been detected the master has sent no
\* START, and it never sends any message to any worker in that run.
C16_ConfigErrorBeforeDispatch ==
    ConfigError =>
        /\ sentStart = {}
        /\ \A w \in Workers : exitSent[w] = 0 /\ toWorker[w] = << >>

\* the master has built a job list with fewer jobs than workers (K < N)
FewerJobsThanWorkers ==
    /\ mpc # "init"
    /\ inputHeadersLst # << >>
    /\ Len(inputHeadersLst) < mpiSize - 1

\* C17: a run with fewer jobs than workers in which no stage function fails
\* comes to rest only with the master out of the script and every worker
\* terminated (none left in a receive or a barrier).
C17_FewerJobsTerminates ==
    (FewerJobsThanWorkers /\ ~StageFailed /\ Quiescent) => AllTerminated

\* the run's configuration: pool size, scenes and product flags
Configuration ==
    << mpiSize, inputHeadersLst, calcAOT, useAOTImage, calc6SSREF,
       exportMetaData >>

\* stage p applied to every record of a list
StageOverList(p, lst) == [i \in 1 .. Len(lst) |-> runARCSIPart(p, lst[i])]

\* the job list one rank after the other would produce from the configuration:
\* stage 1 on the records of the scenes 1..N, the aggregation, the stages the
\* flags ask for, stage 4
AfterStage1 ==
    StageOverList(ARCSIPART1,
        [i \in 1 .. (mpiSize - 1) |-> prepParametersObj(i, inputHeadersLst[i])])
AfterAggregate ==
    IF calcAOT THEN WriteBackAOT(AfterStage1, AvgAOT(AfterStage1))
    ELSE AfterStage1
AfterStage2 ==
    IF calc6SSREF THEN StageOverList(ARCSIPART2, AfterAggregate)
    ELSE AfterAggregate
AfterStage3 ==
    IF exportMetaData THEN StageOverList(ARCSIPART3, AfterStage2)
    ELSE AfterStage2
FinalJobList == StageOverList(ARCSIPART4, AfterStage3)

\* C18: the configuration is fixed once the master has read it, and the job
\* list of every complete execution is the one list FinalJobList that the
\* configuration determines, whatever the interleaving of the ranks' steps and
\* of the message deliveries was; so two complete executions from the same
\* initial job list and configuration end with identical job lists.
C18_FinalListDetermined ==
    /\ [][mpc # "init" => Configuration' = Configuration]_vars
    /\ []((mpc = "returned" /\ e = None) => paramsLst = FinalJobList)

\* a complete run of two different scenes on two workers through the stages
\* 1, 2 and 4
C18_Witness ==
    /\ mpc = "returned"
    /\ e = None
    /\ mpiSize = 3
    /\ paramsLst[1].scene # paramsLst[2].scene
    /\ calc6SSREF
    /\ Len(paramsLst[2].parts) = 3

\* worker w holds a job record: a START for it is on its way to w, or w is in
\* the stage function call on it
RecordsAt(w) ==
    { toWorker[w][k].data[2].idx :
        k \in { j \in 1 .. Len(toWorker[w]) : toWorker[w][j].tag = START } }
    \cup (IF wpc[w] = "work" THEN {tskData[w][2].idx} ELSE {})

\* the STARTs of the running round whose result the master has not received
Outstanding(done) ==
    { s \in sentStart : s[1] = part /\ << part, s[2] >> \notin done }

\* C19: in a stage round a job index is sent once, to one worker; no job
\* record is at two workers at the same time; and the master leaves its copy
\* of a record as it is from the START that carries it until the step that
\* receives its result.
C19_ExclusiveOwnership ==
    /\ [](\A s \in sentStart : \A t \in sentStart :
            (s[1] = t[1] /\ s[3].idx = t[3].idx) => s = t)
    /\ [](\A v \in Workers : \A w \in Workers :
            v # w => RecordsAt(v) \cap RecordsAt(w) = {})
    /\ [][\A s \in Outstanding(gotDone') :
            /\ s[3].idx <= Len(paramsLst')
            /\ paramsLst'[s[3].idx] = paramsLst[s[3].idx]
            /\ paramsLst[s[3].idx] = s[3]]_vars

\* both workers are in the stage function call of the same round, each on its
\* own record, and the master waits for the first result
C19_Witness ==
    /\ mpiSize = 3
    /\ mpc = "gather"
    /\ item = 1
    /\ wpc[1] = "work"
    /\ wpc[2] = "work"
    /\ tskData[1][1] = tskData[2][1]

\* the DONE messages of worker w still on their way to the master
DonesInFlight(w) ==
    { k \in 1 .. Len(toMaster[w]) : toMaster[w][k].tag = DONE }

\* number of DONE messages worker w has sent so far
DonesSent(w) ==
    Cardinality(DonesInFlight(w)) + Cardinality({ d \in gotDone : d[2] = w })

\* C20: a worker is in a stage function call only for a START it received,
\* on the stage and record of that START; each DONE it sends carries the
\* result of that stage function on that record; and outside a stage function
\* call it has sent exactly one DONE per START received.
C20_OneDonePerStart ==
    \A w \in Workers :
        /\ wpc[w] = "work" =>
                /\ << tskData[w][1], w, tskData[w][2] >> \in sentStart
                /\ DonesSent(w) + 1 = Len(seen[w])
        /\ \A k \in DonesInFlight(w) : \E s \in sentStart :
                /\ s[2] = w
                /\ toMaster[w][k].data = runARCSIPart(s[1], s[3])
        /\ wpc[w] # "work" => DonesSent(w) = Len(seen[w])

\* the step takes an EXIT off the channel to worker w
TakesExit(w) ==
    /\ toWorker[w] # << >>
    /\ Head(toWorker[w]).tag = EXIT
    /\ toWorker'[w] = Tail(toWorker[w])

\* C21: a worker becomes terminated only in the step that takes an EXIT, sent
\* by the master, off its channel, and an EXIT is taken only by a worker that
\* waits in the receive after its READY, never by one that is in a stage
\* function call.
C21_ExitOnlyAtReceive ==
    [][\A w \in Workers :
        /\ (wpc'[w] = "terminated" /\ wpc[w] # "terminated") =>
                TakesExit(w) /\ exitSent[w] >= 1
        /\ TakesExit(w) => wpc[w] = "recv" /\ wpc'[w] = "terminated"
        /\ wpc[w] = "work" => wpc'[w] \in {"work", "barrier", "crashed"}]_vars

\* an EXIT waits on the channel of a worker that is in a stage function call
C21_Witness ==
    \E w \in Workers :
        /\ wpc[w] = "work"
        /\ toWorker[w] # << >>
        /\ Head(toWorker[w]).tag = EXIT

\* worker w is in a stage function call and no other rank can take a step
OthersAtRest(w) ==
    /\ wpc[w] = "work"
    /\ ~ENABLED (\/ MasterStep
                 \/ Barrier
                 \/ \E v \in Workers \ {w} : WorkerStep(v))

\* C22: as long as a worker has not returned from its stage function of stage
\* p the master has sent no START of a later stage and no EXIT, and once the
\* other ranks have come to rest the master waits in the gather loop and every
\* other worker waits in the Barrier after the round.
C22_HungWorkerStalls ==
    \A w \in Workers :
        /\ wpc[w] = "work" =>
                /\ \A s \in sentStart : s[1] <= tskData[w][1]
                /\ \A v \in Workers : exitSent[v] = 0
        /\ OthersAtRest(w) =>
                /\ mpc = "gather"
                /\ \A v \in Workers \ {w} : wpc[v] = "barrier"

\* C23: the master's job list changes inside a round only in the step that
\* receives the last result of the round, where it becomes the list of the
\* gathered results; so its records have all gone through the same stages at
\* every reachable state.
C23_RoundAtomic ==
    /\ [](\A i \in 1 .. Len(paramsLst) : \A j \in 1 .. Len(paramsLst) :
            paramsLst[i].parts = paramsLst[j].parts)
    /\ [][(mpc \in {"dispatch", "gather"} /\ paramsLst' # paramsLst) =>
            /\ \A w \in Workers : << part, w >> \in gotDone'
            /\ paramsLst' = paramsLstTmp'
            /\ mpc' = "barrier"]_vars

\* the master holds the first result of a round of two jobs and waits for
\* the second: its job list still has the records it dispatched
C23_Witness ==
    /\ mpc = "gather"
    /\ mpiSize = 3
    /\ item = 2
    /\ Len(paramsLstTmp) = 1
    /\ Len(paramsLst) = 2
    /\ paramsLst[1].parts # paramsLstTmp[1].parts

\* the stage histories a record can have in this run
StageHistories == { ExecutedBefore(p) : p \in 0 .. (ARCSIPART4 + 1) }

\* record r at position i is made of scene i alone, but for the aggregated
\* scalar: its aotVal is absent before stage 1, then the scene's own value,
\* or avgAOT where the aggregation wrote it (the last of the N records)
OwnOrAggregated(r, i) ==
    /\ r.idx = i
    /\ r.scene = inputHeadersLst[i]
    /\ r.parts \in StageHistories
    /\ r.aotVal = IF r.parts = << >> THEN None
                  ELSE IF avgAOT # None /\ i = mpiSize - 1 THEN avgAOT
                  ELSE inputHeadersLst[i]

\* C24: at every stage the record of job i, in the master's list, among the
\* gathered results and in every DONE on its way, is determined by scene i,
\* the configuration and the aggregated scalar; so a change of the initial
\* record of another job j reaches it only through avgAOT.
C24_NonInterference ==
    /\ \A i \in 1 .. Len(paramsLst) : OwnOrAggregated(paramsLst[i], i)
    /\ \A i \in 1 .. Len(paramsLstTmp) : OwnOrAggregated(paramsLstTmp[i], i)
    /\ \A w \in Workers : \A k \in DonesInFlight(w) :
            OwnOrAggregated(toMaster[w][k].data, w)

\* two different scenes on two workers have gone through the aggregation and
\* a later stage
C24_Witness ==
    /\ mpiSize = 3
    /\ avgAOT # None
    /\ Len(paramsLst) = 2
    /\ paramsLst[1].scene # paramsLst[2].scene
    /\ Len(paramsLst[1].parts) >= 2

\* C25: the summary avgAOT is written only by the master's aggregation step,
\* which runs only with calcAOT, only while no summary exists yet (so at most
\* once), after the DONE of stage 1 of every worker has been gathered and the
\* Barrier of stage 1 passed, and while no START of a later stage has been
\* sent; unless the run asks for it no summary ever exists, and when it asks
\* for it every START of a later stage is sent after it.
C25_AggregationOnce ==
    /\ [][avgAOT' # avgAOT =>
            /\ AggregationRuns
            /\ avgAOT = None
            /\ ARCSIPART1 \in mBarriers
            /\ \A w \in Workers : << ARCSIPART1, w >> \in gotDone
            /\ \A s \in sentStart : s[1] = ARCSIPART1]_vars
    /\ [](~calcAOT => avgAOT = None)
    /\ []((calcAOT /\ \E s \in sentStart : s[1] > ARCSIPART1) =>
            avgAOT # None)

\* the aggregation has run for two workers and the master has sent the first
\* START of the next stage
C25_Witness ==
    /\ mpiSize = 3
    /\ avgAOT # None
    /\ mpc = "dispatch"
    /\ item = 2
    /\ part # ARCSIPART1

\* number of READY messages worker w has sent so far
ReadySent(w) ==
    Cardinality({ k \in 1 .. Len(toMaster[w]) : toMaster[w][k].tag = READY })
        + Cardinality({ r \in gotReady : r[2] = w })

\* number of Barriers the master has come out of
BarriersPassed ==
    Cardinality(mBarriers) - (IF mpc = "barrier" THEN 1 ELSE 0)

\* C26: a worker comes out of the Barrier after a round only in a step in
\* which the master has gathered the DONE of every worker for that round and
\* waits in the Barrier too, and every worker comes out with it; a worker has
\* sent at most one READY more than the master has passed Barriers.
C26_BarrierSynchronises ==
    /\ [][\A w \in Workers : (wpc[w] = "barrier" /\ wpc'[w] # "barrier") =>
            /\ mpc = "barrier"
            /\ mpc' # "barrier"
            /\ \A v \in Workers :
                    /\ << part, v >> \in gotDone
                    /\ wpc[v] = "barrier"
                    /\ wpc'[v] = "loop"]_vars
    /\ [](\A w \in Workers : ReadySent(w) <= BarriersPassed + 1)

\* both workers have come out of the Barrier of the second round
C26_Witness ==
    /\ mpiSize = 3
    /\ wBarriers[1] = 2
    /\ wBarriers[2] = 2
    /\ wpc[1] = "loop"
    /\ wpc[2] = "recv"

\* number of STARTs worker w has been sent and not yet answered: those on its
\* channel, and the one it is working on
StartsHeld(w) ==
    Cardinality({ k \in 1 .. Len(toWorker[w]) : toWorker[w][k].tag = START })
        + (IF wpc[w] = "work" THEN 1 ELSE 0)

\* C27: a worker receives the START of a stage at most once and is sent at
\* most one START per round, it never has more than one unanswered START, and
\* the jobs of the running round dispatched and not yet gathered are never
\* more than the N workers.
C27_OneStartPerWorker ==
    /\ \A w \in Workers :
            /\ \A j \in 1 .. Len(seen[w]) : \A k \in 1 .. Len(seen[w]) :
                    seen[w][j] = seen[w][k] => j = k
            /\ Cardinality({ s \in sentStart : s[1] = part /\ s[2] = w }) <= 1
            /\ StartsHeld(w) <= 1
    /\ Cardinality(Outstanding(gotDone)) <= mpiSize - 1

\* two workers both have an unanswered START of the running round
C27_Witness ==
    /\ mpiSize = 3
    /\ Cardinality(Outstanding(gotDone)) = 2
    /\ StartsHeld(1) = 1
    /\ StartsHeld(2) = 1

\* C28: when the master has returned from a run without error and every
\* worker has terminated, every message that was sent has been received: no
\* channel between the master and a worker holds a message.
C28_NoMessageLeft ==
    (AllTerminated /\ mpc = "returned" /\ e = None) =>
        \A w \in Workers : toMaster[w] = << >> /\ toWorker[w] = << >>

\* C29: the master sends at most one EXIT to each worker, whether it leaves
\* through the KILL loop or through an except handler; an EXIT is the last
\* message on a worker's channel, and once a worker's EXIT is sent nothing
\* more is put on its channel.
C29_AtMostOneExit ==
    /\ [](\A w \in Workers :
            /\ exitSent[w] <= 1
            /\ \A k \in 1 .. Len(toWorker[w]) :
                    toWorker[w][k].tag = EXIT => k = Len(toWorker[w]))
    /\ [][\A w \in Workers : exitSent[w] >= 1 =>
            /\ exitSent'[w] = exitSent[w]
            /\ Len(toWorker'[w]) <= Len(toWorker[w])]_vars

\* an except handler has sent EXIT to both workers; one has taken it, the
\* other still has it on its channel behind a START
C29_Witness ==
    /\ mpiSize = 3
    /\ e # None
    /\ exitSent[1] = 1
    /\ exitSent[2] = 1
    /\ wpc[2] = "terminated"
    /\ Len(toWorker[1]) = 2

\* number of stage rounds this run executes when nothing goes wrong
RoundsOfRun ==
    2 + (IF calc6SSREF THEN 1 ELSE 0) + (IF exportMetaData THEN 1 ELSE 0)

\* C30: a run without error ends with the master having entered as many
\* Barriers as it executed stage rounds (2, 3 or 4); and when a run in which
\* no stage function failed has come to rest, every worker has entered as
\* many Barriers as the master and no rank waits in a Barrier.
C30_BarrierCounts ==
    /\ (mpc = "returned" /\ e = None) => Cardinality(mBarriers) = RoundsOfRun
    /\ (Quiescent /\ ~StageFailed) =>
            /\ mpc # "barrier"
            /\ \A w \in Workers :
                    /\ wBarriers[w] = Cardinality(mBarriers)
                    /\ wpc[w] # "barrier"

\* C31: in every executed stage the job at position i of the master's list
\* (index i - 1 from 0) is sent to rank i, rank i works on no other job, and
\* the result the master stores at position i is the one it received from
\* rank i; so a job is processed by the same worker in all stages.
C31_WorkerAffinity ==
    /\ [](\A s \in sentStart : s[3].idx = s[2])
    /\ [](\A w \in Workers : wpc[w] = "work" => tskData[w][2].idx = w)
    /\ [][\A w \in Workers :
            (<< part, w >> \in gotDone' /\ << part, w >> \notin gotDone) =>
                /\ w = item
                /\ Len(paramsLstTmp') = w
                /\ paramsLstTmp'[w].idx = w
                /\ \E k \in DonesInFlight(w) :
                        paramsLstTmp'[w] = toMaster[w][k].data]_vars

\* the master has gathered from rank 2 the results of job 2 for two stages
C31_Witness ==
    /\ mpiSize = 3
    /\ \E s \in sentStart : \E t \in sentStart :
            /\ s[1] # t[1]
            /\ s[2] = 2
            /\ t[2] = 2
            /\ s[3].idx = 2
            /\ t[3].idx = 2
            /\ << s[1], 2 >> \in gotDone
            /\ << t[1], 2 >> \in gotDone

\* C32: every message on a worker's channel is tagged START or EXIT, every
\* START carries one of ARCSIPART1..ARCSIPART4, so a worker in its START
\* branch always finds its stage (the `else: raise` of an unrecognised stage
\* is never reached), and a worker calls the Barrier only out of the START
\* branch, never for a message with another tag.
C32_StageIdValid ==
    /\ [](\A w \in Workers :
            /\ \A k \in 1 .. Len(toWorker[w]) :
                    /\ toWorker[w][k].tag \in {START, EXIT}
                    /\ toWorker[w][k].tag = START =>
                            toWorker[w][k].data[1] \in arcsiStages
            /\ wpc[w] \in {"work", "crashed"} => tskData[w][1] \in arcsiStages
            /\ \A k \in 1 .. Len(seen[w]) : seen[w][k] \in arcsiStages)
    /\ [][\A w \in Workers :
            (wpc'[w] = "barrier" /\ wpc[w] # "barrier") => wpc[w] = "work"]_vars

\* a worker of two is in the stage function of the last stage
C32_Witness ==
    /\ mpiSize = 3
    /\ wpc[2] = "work"
    /\ tskData[2][1] = ARCSIPART4

\* number of occurrences of the character d in the sequence q
RECURSIVE Occurrences(_, _)
Occurrences(q, d) ==
    IF q = << >> THEN 0
    ELSE (IF Head(q) = d THEN 1 ELSE 0) + Occurrences(Tail(q), d)

\* d.join(tokens)
RECURSIVE Join(_, _)
Join(tokens, d) ==
    IF Len(tokens) = 1 THEN tokens[1]
    ELSE tokens[1] \o << d >> \o Join(Tail(tokens), d)

\* C33: the list stringTokenizer returns for a line and a one-character
\* delimiter d has one token more than the line has occurrences of d, no token
\* contains d, the tokens joined with d are the line, and the empty line
\* gives the one empty token.
C33_TokensOfLine ==
    outTokens # << >> =>
        /\ Len(outTokens) = Occurrences(inLine, inDelimiter) + 1
        /\ \A k \in 1 .. Len(outTokens) :
                Occurrences(outTokens[k], inDelimiter) = 0
        /\ Join(outTokens, inDelimiter) = inLine
        /\ inLine = << >> => outTokens = << << >> >>

\* the line "a,," has been split at ",": one token "a" and two empty tokens
C33_Witness ==
    /\ inLine = << "a", ",", "," >>
    /\ inDelimiter = ","
    /\ outTokens = << << "a" >>, << >>, << >> >>

\* C34: the value isSummerOrWinter returned is 1 or 2, and for the same month
\* every latitude of the other hemisphere (lat < 0 against lat >= 0) gets the
\* other of the two values.
C34_OppositeSeasons ==
    outSummerWinter # 0 =>
        /\ outSummerWinter \in {1, 2}
        /\ \A lat \in Lats : (lat < 0) # (inLat < 0) =>
                isSummerOrWinter(lat, inLong, [month |-> inMonth])
                    = 3 - outSummerWinter

====
